---------------------------- MODULE Spec2Model ----------------------------
(*
  A model of the GeoPy vector value types: core.vector.Vector and its
  2-length specialization two_d.point.Point.

  Numbers.  A coordinate is a numpy float64.  A value is modelled as an
  extended rational <<n, d>> in lowest terms: d > 0 is the finite number
  n/d, <<1,0>> is +inf, <<-1,0>> is -inf and <<0,0>> is nan.  Rounding and
  the sign of zero are not modelled; stored coordinates are small whole
  numbers, on which float64 arithmetic is exact up to the quotient.

  Storage.  heap[b] is the numpy array with identity b; an instance is a
  class name and the identity of the array its `coordinates` attribute
  refers to, so that two instances sharing one array is a state the model
  can express.

  Calls.  Each action is one call of a method or operator on an existing
  instance.  `ret` records the call and its outcome; the caller then either
  keeps the returned instance (Keep) or lets it go (Discard) before the next
  call.
*)
EXTENDS Integers, Sequences, FiniteSets, TLC

\* ------------------------------------------------------------ bounds

\* Largest absolute value of a coordinate or scalar a caller passes in.
MaxAbs == 1
\* Longest raw sequence a caller passes in.
MaxDim == 2
\* Most instances alive (referenced by the caller) at once.
MaxInst == 2

\* ------------------------------------------------------------ numbers

Abs(n) == IF n < 0 THEN -n ELSE n

Sign(n) == IF n < 0 THEN -1 ELSE IF n > 0 THEN 1 ELSE 0

RECURSIVE Gcd(_, _)
Gcd(a, b) == IF b = 0 THEN a ELSE Gcd(b, a % b)

\* The extended rational n/d in lowest terms (d = 0: inf, -inf or nan).
Q(n, d) ==
    IF d = 0 THEN <<Sign(n), 0>>
    ELSE LET g == Gcd(Abs(n), Abs(d))
             s == IF d < 0 THEN -1 ELSE 1
         IN  <<(s * n) \div g, (s * d) \div g>>

FromInt(i) == <<i, 1>>
NaN == <<0, 0>>
IsFinite(v) == v[2] > 0
IsWhole(v) == v[2] = 1

RECURSIVE IntPow(_, _)
IntPow(b, e) == IF e = 0 THEN 1 ELSE b * IntPow(b, e - 1)

\* float64 arithmetic on finite operands, as numpy's ufuncs compute it.
QAdd(a, b) == Q(a[1] * b[2] + b[1] * a[2], a[2] * b[2])
QSub(a, b) == Q(a[1] * b[2] - b[1] * a[2], a[2] * b[2])
QMul(a, b) == Q(a[1] * b[1], a[2] * b[2])
QNeg(a) == <<-a[1], a[2]>>
QAbs(a) == <<Abs(a[1]), a[2]>>
\* x / 0 is inf, -inf or nan (a RuntimeWarning, no exception).
QDiv(a, b) == Q(a[1] * b[2], a[2] * b[1])
QFloor(a) == <<a[1] \div a[2], 1>>
QFloorDiv(a, b) == IF b[1] = 0 THEN QDiv(a, b) ELSE QFloor(QDiv(a, b))
QMod(a, b) == IF b[1] = 0 THEN NaN ELSE QSub(a, QMul(QFloor(QDiv(a, b)), b))
\* a ** e for a whole exponent e.
QPow(a, e) ==
    IF e[1] >= 0 THEN Q(IntPow(a[1], e[1]), IntPow(a[2], e[1]))
    ELSE Q(IntPow(a[2], -e[1]), IntPow(a[1], -e[1]))
QLess(a, b) == a[1] * b[2] < b[1] * a[2]

ArithOps == {"add", "sub", "mul", "truediv", "floordiv", "mod", "pow"}

\* One element of an elementwise ufunc.
Elem(op, a, b) ==
    CASE op = "add" -> QAdd(a, b)
      [] op = "sub" -> QSub(a, b)
      [] op = "mul" -> QMul(a, b)
      [] op = "truediv" -> QDiv(a, b)
      [] op = "floordiv" -> QFloorDiv(a, b)
      [] op = "mod" -> QMod(a, b)
      [] op = "pow" -> QPow(a, b)


\* ------------------------------------------------------------ python values

Classes == {"Vector", "Point"}

\* isinstance(x, cls) for the two classes: Point derives from Vector.
IsSubclass(c, cls) == c = cls \/ (c = "Point" /\ cls = "Vector")

\* A numpy array: its elements and its identity (0: not yet allocated, i.e.
\* an array the current call has just created).
Arr(co, buf) == [co |-> co, buf |-> buf]

\* What an expression evaluates to.
\*   inst:  an instance; id is its position in objs, 0 for a new object
\*   num:   a bare number (a python or numpy scalar)
\*   dist:  the float math.sqrt(sq), held as its square sq (sqrt is strictly
\*          increasing on the whole numbers the model reaches)
\*   raw:   a tuple or list of numbers;  text: a str;  map: a dict
\*   none:  None;  bool: True/False;  raise: an exception of type e
PyInst(cls, arr, id) == [k |-> "inst", cls |-> cls, co |-> arr.co, buf |-> arr.buf, id |-> id]
PyNum(v) == [k |-> "num", num |-> v]
PyDist(sq) == [k |-> "dist", sq |-> sq]
PyBool(b) == [k |-> "bool", b |-> b]
PyRaw(s) == [k |-> "raw", seq |-> s]
PyNone == [k |-> "none"]
PyText == [k |-> "text"]
PyMap == [k |-> "map"]
Raise(e) == [k |-> "raise", e |-> e]

ArrOf(x) == Arr(x.co, x.buf)

\* ------------------------------------------------------------ numpy

\* np.asarray in place of np.array: the argument's storage is shared (a
\* faulty variant of NpArray).
NpArrayShared(a) == a

\* np.array(a, dtype=float): always a new array holding a copy.
NpArray(a) == Arr(a.co, 0)

\* A view in place of a copy (a faulty variant of NdCopy).
NdCopyShared(a) == a

\* ndarray.copy(order): a new array holding a copy.
NdCopy(a) == Arr(a.co, 0)

Zeros(n) == [i \in 1..n |-> FromInt(0)]

\* Broadcasting of two 1-D shapes: equal lengths, or one of them 1.
Broadcastable(n, m) == n = m \/ n = 1 \/ m = 1
Max(n, m) == IF n > m THEN n ELSE m
At(s, i) == IF Len(s) = 1 THEN s[1] ELSE s[i]

\* ndarray.__add__ and the other elementwise operators on a 1-D float array.
\* The operand is an array's elements, a number, or any other object (which
\* numpy wraps as a 0-d object array; float.__add__(x, obj) then fails).
NdArith(op, co, operand) ==
    CASE operand.k = "arr" ->
           IF Broadcastable(Len(co), Len(operand.co))
           THEN [k |-> "arr",
                 co |-> [i \in 1..Max(Len(co), Len(operand.co)) |->
                            Elem(op, At(co, i), At(operand.co, i))]]
           ELSE Raise("ValueError")
      [] operand.k = "num" ->
           [k |-> "arr", co |-> [i \in 1..Len(co) |-> Elem(op, co[i], operand.num)]]
      [] OTHER -> Raise("TypeError")

RECURSIVE Dot(_, _)
Dot(a, b) == IF a = <<>> THEN FromInt(0)
             ELSE QAdd(QMul(Head(a), Head(b)), Dot(Tail(a), Tail(b)))

\* ndarray.__matmul__ on a 1-D array: a scalar for two 1-D arrays of one
\* length; core dimensions are not broadcast, and a 0-d operand is refused.
NdMatmul(co, operand) ==
    IF operand.k = "arr" /\ Len(operand.co) = Len(co)
    THEN PyNum(Dot(co, operand.co))
    ELSE Raise("ValueError")

\* .any() in place of .all() (a faulty variant of NdEqAll).
NdEqAny(a, b, mismatch) ==
    IF Broadcastable(Len(a), Len(b))
    THEN PyBool(\E i \in 1..Max(Len(a), Len(b)) : At(a, i) = At(b, i))
    ELSE Raise(mismatch)

\* ndarray.__eq__(other).all() for 1-D arrays.  Shapes that do not broadcast:
\* numpy before 1.25 returns the bool False, whose .all() is an
\* AttributeError; later numpy raises ValueError.  `mismatch` is the one the
\* build at hand produces.
NdEqAll(a, b, mismatch) ==
    IF Broadcastable(Len(a), Len(b))
    THEN PyBool(\A i \in 1..Max(Len(a), Len(b)) : At(a, i) = At(b, i))
    ELSE Raise(mismatch)

ShapeMismatchErrors == {"ValueError", "AttributeError"}


\* ------------------------------------------------------------ Vector, Point

\* Vector.__init__: coordinates = np.array(coordinates, dtype=float).
VectorInit(cls, a) == PyInst(cls, NpArray(a), 0)

\* Point.__init__ without its length check (a faulty variant of PointInit).
PointInitUnchecked(a) == VectorInit("Point", a)

\* Point.__init__: the length check, then Vector.__init__.
PointInit(a) ==
    IF Len(a.co) # 2 THEN Raise("ValueError") ELSE VectorInit("Point", a)

\* The base constructor whatever the class (a faulty variant of New).
NewBase(cls, a) == VectorInit("Vector", a)

\* cls(a): the constructor call, as in self.__class__(...) and cls(item).
New(cls, a) == IF cls = "Point" THEN PointInit(a) ELSE VectorInit("Vector", a)

\* Vector.d
D(x) == Len(x.co)

\* Point.x, Point.y
X(p) == p.co[1]
Y(p) == p.co[2]

\* item.vector() exists: only Point defines it.
HasVector(item) == item.k = "inst" /\ item.cls = "Point"

\* Point.vector
PointVector(p) == VectorInit("Vector", ArrOf(p))

\* Point.from_vector
FromVector(v) == PointInit(ArrOf(v))

\* Point.flip_x, Point.flip_y: a new Point from a fresh tuple.
FlipX(p) == PointInit(Arr(<<X(p), QNeg(Y(p))>>, 0))
FlipY(p) == PointInit(Arr(<<QNeg(X(p)), Y(p)>>, 0))

\* to_class without its str/dict branch, so that a str or dict falls through
\* to the final fallback (a faulty variant of ToClass).
ToClassNoStrings(cls, item, no_scalar) ==
    IF item.k = "raw" THEN New(cls, Arr(item.seq, 0))
    ELSE IF HasVector(item) THEN PointVector(item)
    ELSE IF no_scalar THEN Raise("TypeError")
    ELSE item

\* Vector.to_class
ToClass(cls, item, no_scalar) ==
    IF item.k = "raw" THEN New(cls, Arr(item.seq, 0))
    ELSE IF item.k \in {"text", "map"} THEN Raise("TypeError")
    ELSE IF HasVector(item) THEN PointVector(item)
    ELSE IF no_scalar THEN Raise("TypeError")
    ELSE item

\* Vector.check_class: TRUE when it returns, FALSE when it raises TypeError.
CheckClass(cls, item) == item.k = "inst" /\ IsSubclass(item.cls, cls)

\* The sum of squared per-axis differences of two equally long sequences.
RECURSIVE SumSqDiff(_, _)
SumSqDiff(a, b) ==
    IF a = <<>> THEN FromInt(0)
    ELSE QAdd(QMul(QSub(Head(b), Head(a)), QSub(Head(b), Head(a))),
              SumSqDiff(Tail(a), Tail(b)))

\* distance without the length check: map() stops at the shorter sequence
\* (a faulty variant of Distance).
DistanceUnchecked(self, origin) ==
    LET o == IF origin.k = "none" THEN New(self.cls, Arr(Zeros(D(self)), 0))
             ELSE ToClass(self.cls, origin, FALSE)
        n == IF o.k = "inst" /\ D(o) < D(self) THEN D(o) ELSE D(self)
    IN  IF o.k = "raise" THEN o
        ELSE IF o.k # "inst" THEN Raise("AttributeError")
        ELSE PyDist(SumSqDiff(SubSeq(self.co, 1, n), SubSeq(o.co, 1, n)))

\* Vector.distance
Distance(self, origin) ==
    LET o == IF origin.k = "none" THEN New(self.cls, Arr(Zeros(D(self)), 0))
             ELSE ToClass(self.cls, origin, FALSE)
    IN  IF o.k = "raise" THEN o
        ELSE IF o.k # "inst" THEN Raise("AttributeError")
        ELSE IF D(o) # D(self) THEN Raise("ValueError")
        ELSE PyDist(SumSqDiff(self.co, o.co))

\* Vector.__eq__
Eq(self, other, mismatch) ==
    LET o == ToClass(self.cls, other, FALSE)
    IN  IF o.k = "raise" THEN o
        ELSE IF ~CheckClass(self.cls, o) THEN Raise("TypeError")
        ELSE NdEqAll(self.co, o.co, mismatch)

CmpOps == {"gt", "lt", "le", "ge"}

\* < and > exchanged (a faulty variant of FloatCmp).
FloatCmpSwapped(op, a, b) ==
    CASE op = "gt" -> QLess(a.sq, b.sq)
      [] op = "lt" -> QLess(b.sq, a.sq)
      [] op = "le" -> ~QLess(b.sq, a.sq)
      [] op = "ge" -> ~QLess(a.sq, b.sq)

\* float.__gt__ and the others on two math.sqrt results.
FloatCmp(op, a, b) ==
    CASE op = "gt" -> QLess(b.sq, a.sq)
      [] op = "lt" -> QLess(a.sq, b.sq)
      [] op = "le" -> ~QLess(b.sq, a.sq)
      [] op = "ge" -> ~QLess(a.sq, b.sq)

\* Vector.__gt__, __lt__, __le__, __ge__
Cmp(op, self, other) ==
    LET o == ToClass(self.cls, other, FALSE)
    IN  IF o.k = "raise" THEN o
        ELSE IF ~CheckClass(self.cls, o) THEN Raise("TypeError")
        ELSE PyBool(FloatCmp(op, Distance(self, PyNone), Distance(o, PyNone)))

\* `other.coordinates if isinstance(other, self.__class__) else other`
Operand(self, o) ==
    IF o.k = "inst" /\ IsSubclass(o.cls, self.cls)
    THEN [k |-> "arr", co |-> o.co]
    ELSE o

\* Vector.__add__, __sub__, __mul__, __truediv__, __floordiv__, __mod__, __pow__
Arith(op, self, other) ==
    LET o == ToClass(self.cls, other, FALSE)
    IN  IF o.k = "raise" THEN o
        ELSE LET r == NdArith(op, self.co, Operand(self, o))
             IN  IF r.k = "raise" THEN r ELSE New(self.cls, Arr(r.co, 0))

\* Vector.__matmul__
Matmul(self, other) ==
    LET o == ToClass(self.cls, other, FALSE)
    IN  IF o.k = "raise" THEN o ELSE NdMatmul(self.co, Operand(self, o))

UnaryOps == {"pos", "neg", "abs", "invert"}

\* Vector.__pos__, __neg__, __abs__, __invert__ (numpy defines no invert
\* for float arrays: TypeError).
Unary(op, self) ==
    CASE op = "pos" -> New(self.cls, Arr(self.co, 0))
      [] op = "neg" -> New(self.cls, Arr([i \in 1..D(self) |-> QNeg(self.co[i])], 0))
      [] op = "abs" -> New(self.cls, Arr([i \in 1..D(self) |-> QAbs(self.co[i])], 0))
      [] op = "invert" -> Raise("TypeError")

\* Vector.copy
Copy(self) == New(self.cls, NdCopy(ArrOf(self)))

\* numpy's index of an integer key, 0 when it is out of range.
Index(n, key) ==
    IF 0 <= key /\ key < n THEN key + 1
    ELSE IF -n <= key /\ key < 0 THEN n + key + 1
    ELSE 0

\* Vector.__getitem__ with an integer key
GetItem(self, key) ==
    IF Index(D(self), key) = 0 THEN Raise("IndexError")
    ELSE PyNum(self.co[Index(D(self), key)])

\* Vector.__delitem__
DelItem(self, key) == Raise("NotImplementedError")


\* An index or slice key of __getitem__/__setitem__/__delitem__.
IntKey(i) == [k |-> "int", i |-> i]
SliceKey(lo, hi) == [k |-> "slice", lo |-> lo, hi |-> hi]

\* An integer key past the end appends, as on a list that grows (a faulty
\* variant of NdSetItem).
NdSetItemGrows(co, key, value) ==
    IF key.k = "int"
    THEN IF Index(Len(co), key.i) = 0 THEN [k |-> "arr", co |-> Append(co, value)]
         ELSE [k |-> "arr", co |-> [co EXCEPT ![Index(Len(co), key.i)] = value]]
    ELSE [k |-> "arr",
          co |-> [i \in 1..Len(co) |->
                     IF key.lo < i /\ i <= key.hi THEN value ELSE co[i]]]

\* ndarray.__setitem__(key, value) with a scalar value: the new elements, or
\* the exception.  A slice lo:hi is clamped to the array and may be empty.
NdSetItem(co, key, value) ==
    IF key.k = "int"
    THEN IF Index(Len(co), key.i) = 0 THEN Raise("IndexError")
         ELSE [k |-> "arr", co |-> [co EXCEPT ![Index(Len(co), key.i)] = value]]
    ELSE [k |-> "arr",
          co |-> [i \in 1..Len(co) |->
                     IF key.lo < i /\ i <= key.hi THEN value ELSE co[i]]]

\* The reflected comparison python tries first when the right operand's type
\* is a proper subclass of the left operand's type.
Swapped(op) ==
    CASE op = "gt" -> "lt"
      [] op = "lt" -> "gt"
      [] op = "le" -> "ge"
      [] op = "ge" -> "le"

ReflectedFirst(self, other) ==
    other.k = "inst" /\ other.cls # self.cls /\ IsSubclass(other.cls, self.cls)

\* The expression `self == other`, which calls Vector.__eq__.
EqExpr(self, other, mismatch) ==
    IF ReflectedFirst(self, other) THEN Eq(other, self, mismatch)
    ELSE Eq(self, other, mismatch)

\* The expressions `self > other`, ..., which call Vector.__gt__, ...
CmpExpr(op, self, other) ==
    IF ReflectedFirst(self, other) THEN Cmp(Swapped(op), other, self)
    ELSE Cmp(op, self, other)

\* ------------------------------------------------------------ state

VARIABLES
    heap,   \* heap[b]: the elements of the numpy array with identity b
    objs,   \* the instances the caller holds: class, array, constructed length
    ret     \* the call in progress: operation, receiver, argument, outcome

vars == <<heap, objs, ret>>

Idle == [op |-> "idle"]

Nums == {FromInt(i) : i \in -MaxAbs..MaxAbs}
RawSeqs == UNION {[1..n -> Nums] : n \in 1..MaxDim}
IntKeys == {IntKey(i) : i \in -(MaxDim + 1)..MaxDim}
SliceKeys == {SliceKey(lo, hi) : lo \in 0..MaxDim, hi \in 0..MaxDim}

\* The instance objs[i], as an expression's value.
Self(i) == PyInst(objs[i].cls, Arr(heap[objs[i].buf], objs[i].buf), i)

Insts == {Self(i) : i \in 1..Len(objs)}
Points == {x \in Insts : x.cls = "Point"}

\* What a caller passes as the right-hand operand.
Operands == {PyRaw(s) : s \in RawSeqs} \cup {PyNum(v) : v \in Nums} \cup Insts

\* Anything a caller may hand to to_class.
Items == Operands \cup {PyText, PyMap}

Init ==
    /\ heap = <<>>
    /\ objs = <<>>
    /\ ret = Idle

\* The call returns `out`.  An array the call created is allocated.
Returns(op, self, arg, out) ==
    /\ ret = Idle
    /\ objs' = objs
    /\ IF out.k = "inst" /\ out.buf = 0
       THEN /\ heap' = Append(heap, out.co)
            /\ ret' = [op |-> op, self |-> self, arg |-> arg,
                       out |-> [out EXCEPT !.buf = Len(heap) + 1]]
       ELSE /\ heap' = heap
            /\ ret' = [op |-> op, self |-> self, arg |-> arg, out |-> out]

\* Vector(raw), Point(raw)
Construct(cls, raw) ==
    Returns("new", [k |-> "class", cls |-> cls], raw, New(cls, Arr(raw.seq, 0)))

\* Vector(v.coordinates), Point(v.coordinates): a constructor handed the
\* array of the instance v.
ConstructFrom(cls, v) ==
    Returns("new_from", [k |-> "class", cls |-> cls], v, New(cls, ArrOf(v)))

CallToClass(cls, item, no_scalar) ==
    Returns(IF no_scalar THEN "to_class_strict" ELSE "to_class",
            [k |-> "class", cls |-> cls], item, ToClass(cls, item, no_scalar))

CallDistance(self, origin) ==
    Returns("distance", self, origin, Distance(self, origin))

CallEq(self, other, mismatch) ==
    Returns("eq", self, other, EqExpr(self, other, mismatch))

CallCmp(op, self, other) ==
    Returns(op, self, other, CmpExpr(op, self, other))

CallArith(op, self, other) ==
    Returns(op, self, other, Arith(op, self, other))

CallMatmul(self, other) ==
    Returns("matmul", self, other, Matmul(self, other))

CallUnary(op, self) ==
    Returns(op, self, PyNone, Unary(op, self))

CallCopy(self) ==
    Returns("copy", self, PyNone, Copy(self))

CallGetItem(self, key) ==
    Returns("getitem", self, key, GetItem(self, key.i))

CallDelItem(self, key) ==
    Returns("delitem", self, key, DelItem(self, key))

CallVector(self) ==
    Returns("vector", self, PyNone, PointVector(self))

CallFromVector(v) ==
    Returns("from_vector", [k |-> "class", cls |-> "Point"], v, FromVector(v))

CallFlipX(self) ==
    Returns("flip_x", self, PyNone, FlipX(self))

CallFlipY(self) ==
    Returns("flip_y", self, PyNone, FlipY(self))

\* Vector.__setitem__: writes into the receiver's array in place.
CallSetItem(self, key, value) ==
    LET r == NdSetItem(self.co, key, value)
    IN  /\ ret = Idle
        /\ objs' = objs
        /\ heap' = IF r.k = "raise" THEN heap ELSE [heap EXCEPT ![self.buf] = r.co]
        /\ ret' = [op |-> "setitem", self |-> self,
                   arg |-> [k |-> "item", key |-> key, value |-> value],
                   out |-> IF r.k = "raise" THEN r ELSE PyNone]

InRange(co) == \A i \in 1..Len(co) : co[i] \in Nums

\* The caller binds the returned new instance to a name.
Keep ==
    /\ ret # Idle
    /\ ret.out.k = "inst"
    /\ ret.out.id = 0
    /\ Len(objs) < MaxInst
    /\ InRange(heap[ret.out.buf])
    /\ objs' = Append(objs, [cls |-> ret.out.cls, buf |-> ret.out.buf,
                             d0 |-> Len(heap[ret.out.buf])])
    /\ ret' = Idle
    /\ heap' = heap

\* The caller lets the result go; an array nothing refers to is reclaimed.
Discard ==
    /\ ret # Idle
    /\ ret' = Idle
    /\ objs' = objs
    /\ heap' = IF /\ ret.out.k = "inst"
                  /\ ret.out.id = 0
                  /\ ret.out.buf = Len(heap)
                  /\ \A i \in 1..Len(objs) : objs[i].buf # ret.out.buf
               THEN SubSeq(heap, 1, Len(heap) - 1)
               ELSE heap

Next ==
    \/ ret = Idle /\ \E cls \in Classes, s \in RawSeqs : Construct(cls, PyRaw(s))
    \/ ret = Idle /\ \E cls \in Classes, item \in Items, ns \in BOOLEAN : CallToClass(cls, item, ns)
    \/ ret = Idle /\ \E self \in Insts, o \in Operands \cup {PyNone} : CallDistance(self, o)
    \/ ret = Idle /\ \E self \in Insts, o \in Operands, m \in ShapeMismatchErrors : CallEq(self, o, m)
    \/ ret = Idle /\ \E op \in CmpOps, self \in Insts, o \in Operands : CallCmp(op, self, o)
    \/ ret = Idle /\ \E op \in ArithOps, self \in Insts, o \in Operands : CallArith(op, self, o)
    \/ ret = Idle /\ \E self \in Insts, o \in Operands : CallMatmul(self, o)
    \/ ret = Idle /\ \E op \in UnaryOps, self \in Insts : CallUnary(op, self)
    \/ ret = Idle /\ \E self \in Insts : CallCopy(self)
    \/ ret = Idle /\ \E self \in Insts, key \in IntKeys : CallGetItem(self, key)
    \/ ret = Idle /\ \E self \in Insts, key \in IntKeys \cup SliceKeys, v \in Nums : CallSetItem(self, key, v)
    \/ ret = Idle /\ \E self \in Insts, key \in IntKeys \cup SliceKeys : CallDelItem(self, key)
    \/ ret = Idle /\ \E self \in Points : CallVector(self)
    \/ ret = Idle /\ \E v \in Insts : CallFromVector(v)
    \/ ret = Idle /\ \E self \in Points : CallFlipX(self)
    \/ ret = Idle /\ \E self \in Points : CallFlipY(self)
    \/ ret = Idle /\ \E cls \in Classes, v \in Insts : ConstructFrom(cls, v)
    \/ Keep
    \/ Discard

Spec == Init /\ [][Next]_vars


\* ------------------------------------------------------------ single calls

\* The caller holds n instances, each built by Vector(raw) or Point(raw).
Holding(n) ==
    \E h \in [1..n -> RawSeqs], cl \in [1..n -> Classes] :
        /\ \A i \in 1..n : cl[i] = "Point" => Len(h[i]) = 2
        /\ heap = [i \in 1..n |-> h[i]]
        /\ objs = [i \in 1..n |-> [cls |-> cl[i], buf |-> i, d0 |-> Len(h[i])]]
        /\ ret = Idle

\* One receiver, and possibly a second instance to pass as the operand.
InitCall == Holding(1) \/ Holding(2)

\* The operands of a single call on objs[1]: the second instance when there
\* is one, else every raw sequence and number.
CallOperands ==
    IF Len(objs) = 2 THEN {Self(2)}
    ELSE {PyRaw(s) : s \in RawSeqs} \cup {PyNum(v) : v \in Nums}

NextCall ==
    \/ ret = Idle /\ \E o \in CallOperands \cup {PyNone} : CallDistance(Self(1), o)
    \/ ret = Idle /\ \E o \in CallOperands, m \in ShapeMismatchErrors : CallEq(Self(1), o, m)
    \/ ret = Idle /\ \E op \in CmpOps, o \in CallOperands : CallCmp(op, Self(1), o)
    \/ ret = Idle /\ \E op \in ArithOps, o \in CallOperands : CallArith(op, Self(1), o)
    \/ ret = Idle /\ \E o \in CallOperands : CallMatmul(Self(1), o)
    \/ Discard

\* Every binary operator and distance, called once on any receiver with any
\* operand.
SpecCall == InitCall /\ [][NextCall]_vars


\* ------------------------------------------------------------ one name

\* The caller rebinds its first name to the new instance just returned, as in
\* v = v + 1; the instance the name held before is reclaimed.
Rebind ==
    /\ ret # Idle
    /\ ret.out.k = "inst"
    /\ ret.out.id = 0
    /\ ret.out.buf = Len(objs) + 1
    /\ InRange(heap[ret.out.buf])
    /\ objs' = IF objs = <<>> THEN <<[cls |-> ret.out.cls, buf |-> 1,
                                      d0 |-> Len(heap[ret.out.buf])]>>
               ELSE [objs EXCEPT ![1] = [cls |-> ret.out.cls, buf |-> 1,
                                         d0 |-> Len(heap[ret.out.buf])]]
    /\ heap' = IF objs = <<>> THEN <<heap[ret.out.buf]>>
               ELSE [SubSeq(heap, 1, Len(objs)) EXCEPT ![1] = heap[ret.out.buf]]
    /\ ret' = Idle

InitLife == (heap = <<>> /\ objs = <<>> /\ ret = Idle) \/ InitCall

\* The receiver of the calls on the first name, and the operands it is
\* given: the second instance when one is held, else every raw sequence and
\* number and the receiver itself.  Calls that take no operand are made while
\* no second instance is held.
LifeSelf == IF objs = <<>> THEN {} ELSE {Self(1)}
LifeAlone == IF Len(objs) = 1 THEN {Self(1)} ELSE {}
LifePoint == {x \in LifeAlone : x.cls = "Point"}
LifeOperands ==
    IF Len(objs) = 2 THEN {Self(2)}
    ELSE {PyRaw(s) : s \in RawSeqs} \cup {PyNum(v) : v \in Nums} \cup LifeSelf
LifeItems == IF Len(objs) = 2 THEN {Self(2)} ELSE LifeOperands \cup {PyText, PyMap}

NextLife ==
    \/ ret = Idle /\ Len(objs) <= 1 /\ \E cls \in Classes, s \in RawSeqs : Construct(cls, PyRaw(s))
    \/ ret = Idle /\ \E cls \in Classes, item \in LifeItems, ns \in BOOLEAN :
                        CallToClass(cls, item, ns)
    \/ ret = Idle /\ \E self \in LifeSelf, o \in LifeOperands : CallDistance(self, o)
    \/ ret = Idle /\ \E self \in LifeAlone : CallDistance(self, PyNone)
    \/ ret = Idle /\ \E self \in LifeSelf, o \in LifeOperands, m \in ShapeMismatchErrors :
                        CallEq(self, o, m)
    \/ ret = Idle /\ \E op \in CmpOps, self \in LifeSelf, o \in LifeOperands : CallCmp(op, self, o)
    \/ ret = Idle /\ \E op \in ArithOps, self \in LifeSelf, o \in LifeOperands :
                        CallArith(op, self, o)
    \/ ret = Idle /\ \E self \in LifeSelf, o \in LifeOperands : CallMatmul(self, o)
    \/ ret = Idle /\ \E op \in UnaryOps, self \in LifeAlone : CallUnary(op, self)
    \/ ret = Idle /\ \E self \in LifeAlone : CallCopy(self)
    \/ ret = Idle /\ \E self \in LifeAlone, key \in IntKeys : CallGetItem(self, key)
    \/ ret = Idle /\ \E self \in LifeAlone, key \in IntKeys \cup SliceKeys, v \in Nums :
                        CallSetItem(self, key, v)
    \/ ret = Idle /\ \E self \in LifeAlone, key \in IntKeys \cup SliceKeys : CallDelItem(self, key)
    \/ ret = Idle /\ \E self \in LifePoint : CallVector(self)
    \/ ret = Idle /\ \E v \in LifeItems \cap Insts : CallFromVector(v)
    \/ ret = Idle /\ \E self \in LifePoint : CallFlipX(self)
    \/ ret = Idle /\ \E self \in LifePoint : CallFlipY(self)
    \/ Rebind
    \/ Discard

\* Any sequence of calls on one name, each result either rebound to the name
\* or let go; a second instance, when held, serves as the operand.
SpecLife == InitLife /\ [][NextLife]_vars

\* ------------------------------------------------------------ two names

\* The caller holds one instance, or that one and a second made from it.
Alone == Len(objs) = 1

\* What is passed as the operand: with two instances held, the other one.
ShareOperands(self) ==
    IF Alone THEN {PyRaw(s) : s \in RawSeqs} \cup {PyNum(v) : v \in Nums} \cup {self}
    ELSE Insts \ {self}

\* The keys of the indexed writes: slices too while one instance is held.
ShareKeys == IF Alone THEN IntKeys \cup SliceKeys ELSE IntKeys

NextShare ==
    \/ ret = Idle /\ Alone /\ \E cls \in Classes : ConstructFrom(cls, Self(1))
    \/ ret = Idle /\ Alone /\ \E cls \in Classes, ns \in BOOLEAN : CallToClass(cls, Self(1), ns)
    \/ ret = Idle /\ Alone /\ CallCopy(Self(1))
    \/ ret = Idle /\ Alone /\ Self(1).cls = "Point" /\ CallVector(Self(1))
    \/ ret = Idle /\ Alone /\ CallFromVector(Self(1))
    \/ ret = Idle /\ Alone /\ Self(1).cls = "Point" /\ CallFlipX(Self(1))
    \/ ret = Idle /\ Alone /\ Self(1).cls = "Point" /\ CallFlipY(Self(1))
    \/ ret = Idle /\ Alone /\ \E op \in UnaryOps : CallUnary(op, Self(1))
    \/ ret = Idle /\ \E op \in ArithOps, self \in Insts : \E o \in ShareOperands(self) :
                        CallArith(op, self, o)
    \/ ret = Idle /\ \E self \in Insts : \E o \in ShareOperands(self) : CallMatmul(self, o)
    \/ ret = Idle /\ \E self \in Insts : \E o \in ShareOperands(self), m \in ShapeMismatchErrors :
                        CallEq(self, o, m)
    \/ ret = Idle /\ \E op \in CmpOps, self \in Insts : \E o \in ShareOperands(self) :
                        CallCmp(op, self, o)
    \/ ret = Idle /\ \E self \in Insts : \E o \in ShareOperands(self) \cup {PyNone} :
                        CallDistance(self, o)
    \/ ret = Idle /\ \E self \in Insts, key \in ShareKeys, v \in Nums : CallSetItem(self, key, v)
    \/ Alone /\ Keep
    \/ Discard

\* w = <an instance made from v>, then any calls on v and w with the other
\* as the operand, indexed writes among them.
SpecShare == Holding(1) /\ [][NextShare]_vars

\* ------------------------------------------------------------ chained calls

\* `<the call just made> == other`: == is called on the instance the last
\* call returned, which the caller holds under no name, so it is gone after.
ChainEq(other, mismatch) ==
    /\ ret # Idle
    /\ ret.op # "eq"
    /\ ret.out.k = "inst"
    /\ ret.out.id = 0
    /\ objs' = objs
    /\ heap' = IF /\ ret.out.buf = Len(heap)
                  /\ \A i \in 1..Len(objs) : objs[i].buf # ret.out.buf
               THEN SubSeq(heap, 1, Len(heap) - 1)
               ELSE heap
    /\ ret' = [op |-> "eq", self |-> ret.out, arg |-> other,
               out |-> EqExpr(ret.out, other, mismatch),
               after |-> [op |-> ret.op, self |-> ret.self]]

NextChain ==
    \/ ret = Idle /\ Self(1).cls = "Point" /\ CallFlipX(Self(1))
    \/ ret = Idle /\ Self(1).cls = "Point" /\ CallFlipY(Self(1))
    \/ ret = Idle /\ CallCopy(Self(1))
    \/ \E o \in Insts, m \in ShapeMismatchErrors : ChainEq(o, m)
    \/ Discard

\* p.flip_x() == q, p.flip_y() == q and v.copy() == q for the instances the
\* caller holds.
SpecChain == InitCall /\ [][NextChain]_vars

\* ------------------------------------------------------------ properties

\* The coordinates of a vector-shaped argument: a raw sequence or an instance.
ArgCo(a) == IF a.k = "raw" THEN a.seq ELSE a.co
IsVectorShaped(a) == a.k \in {"raw", "inst"}
\* A raw sequence or an instance of the base class itself.
IsBaseOperand(a) == a.k = "raw" \/ (a.k = "inst" /\ a.cls = "Vector")

RECURSIVE SumTo(_, _)
SumTo(f, n) == IF n = 0 THEN FromInt(0) ELSE QAdd(f[n], SumTo(f, n - 1))
\* The sum of the squared coordinates.
SumSq(co) == SumTo([i \in 1..Len(co) |-> QMul(co[i], co[i])], Len(co))
\* The sum of the squared per-axis differences.
SqDist(a, b) ==
    SumTo([i \in 1..Len(a) |-> QMul(QSub(a[i], b[i]), QSub(a[i], b[i]))], Len(a))

Differ(a, b) == \E i \in 1..Len(a) : a[i] # b[i]

\* C1: on a base Vector v, v == o with o a raw sequence or a base Vector of
\* v's length is True exactly when all coordinates agree and False when one
\* differs; with a scalar o the comparison raises TypeError.
C1_EqualityOnBaseVector ==
    (ret.op = "eq" /\ ret.self.cls = "Vector") =>
        /\ (IsBaseOperand(ret.arg) /\ Len(ArgCo(ret.arg)) = D(ret.self)) =>
              ret.out = PyBool(\A i \in 1..D(ret.self) :
                                  ret.self.co[i] = ArgCo(ret.arg)[i])
        /\ ret.arg.k = "num" => ret.out = Raise("TypeError")

\* v == o answered False for two base Vectors of length 2 that agree on one
\* coordinate and differ on the other.
C1_Witness ==
    /\ ret.op = "eq"
    /\ ret.self.cls = "Vector"
    /\ ret.arg.k = "inst"
    /\ ret.arg.cls = "Vector"
    /\ D(ret.self) = 2
    /\ D(ret.arg) = 2
    /\ ret.self.co[1] = ret.arg.co[1]
    /\ ret.self.co[2] # ret.arg.co[2]
    /\ ret.out = PyBool(FALSE)

\* The comparison OP on two squared magnitudes.
MagnitudeCmp(op, a, b) ==
    CASE op = "lt" -> QLess(a, b)
      [] op = "gt" -> QLess(b, a)
      [] op = "le" -> QLess(a, b) \/ a = b
      [] op = "ge" -> QLess(b, a) \/ a = b

C3_Distance ==
    ret.op = "distance" =>
        /\ ret.arg.k = "none" => ret.out = PyDist(SumSq(ret.self.co))
        /\ (IsVectorShaped(ret.arg) /\ Len(ArgCo(ret.arg)) = D(ret.self)) =>
              ret.out = PyDist(SqDist(ret.self.co, ArgCo(ret.arg)))
        /\ ret.out = Raise("ValueError") <=>
              (IsVectorShaped(ret.arg) /\ Len(ArgCo(ret.arg)) # D(ret.self))
        /\ heap[ret.self.buf] = ret.self.co
        /\ ret.arg.k = "inst" => heap[ret.arg.buf] = ret.arg.co

\* distance(origin) raised ValueError for an instance origin of another length.
C3_Witness ==
    /\ ret.op = "distance"
    /\ ret.arg.k = "inst"
    /\ D(ret.arg) # D(ret.self)
    /\ ret.out = Raise("ValueError")

\* The elementwise result of self OP arg for a raw sequence of self's length
\* or a number.
Elementwise(op, co, a) ==
    [i \in 1..Len(co) |-> Elem(op, co[i], IF a.k = "num" THEN a.num ELSE a.seq[i])]

BinOps == ArithOps \cup CmpOps \cup {"eq", "matmul"}

\* What the expression `self OP arg` evaluates to.
Expr(op, self, arg, mismatch) ==
    CASE op \in ArithOps -> Arith(op, self, arg)
      [] op \in CmpOps -> CmpExpr(op, self, arg)
      [] op = "eq" -> EqExpr(self, arg, mismatch)
      [] op = "matmul" -> Matmul(self, arg)

\* Two outcomes agree: the same exception, the same value, or instances of
\* one class with the same coordinates.
SameOutcome(a, b) ==
    /\ a.k = b.k
    /\ IF a.k = "inst" THEN a.cls = b.cls /\ a.co = b.co ELSE a = b

\* C5: for a receiver r (base Vector or Point) and a binary operator OP,
\* r OP Vector((a, b)) has the outcome of r OP (a, b).
C5_CoercionEquivalence ==
    (/\ ret.op \in BinOps
     /\ ret.arg.k = "inst"
     /\ ret.arg.cls = "Vector"
     /\ D(ret.arg) = 2) =>
        \E m \in ShapeMismatchErrors :
            SameOutcome(ret.out, Expr(ret.op, ret.self, PyRaw(ret.arg.co), m))

Flipped(op, co) ==
    IF op = "flip_x" THEN <<co[1], QNeg(co[2])>> ELSE <<QNeg(co[1]), co[2]>>

\* C6: for a Point p = (x, y), p.flip_x() == Point((x, -y)) and
\* p.flip_y() == Point((-x, y)) are True, the flip being a new Point and p
\* keeping its coordinates.
C6_FlipEquals ==
    (/\ ret.op = "eq"
     /\ "after" \in DOMAIN ret
     /\ ret.after.op \in {"flip_x", "flip_y"}
     /\ ret.arg.cls = "Point"
     /\ ret.arg.co = Flipped(ret.after.op, ret.after.self.co)) =>
        /\ ret.self.cls = "Point"
        /\ ret.self.id = 0
        /\ heap[ret.after.self.buf] = ret.after.self.co
        /\ ret.out = PyBool(TRUE)

\* C7: for Points p and q and OP in + - * / // % **, p OP q is a new Point
\* holding the elementwise result of their coordinates.
C7_PointWithPoint ==
    (/\ ret.op \in ArithOps
     /\ ret.self.cls = "Point"
     /\ ret.arg.k = "inst"
     /\ ret.arg.cls = "Point") =>
        /\ ret.out.k = "inst"
        /\ ret.out.cls = "Point"
        /\ ret.out.co = [i \in 1..2 |-> Elem(ret.op, ret.self.co[i], ret.arg.co[i])]


\* Every instance there is: those the caller holds and the one just returned.
Alive ==
    {[cls |-> objs[i].cls, buf |-> objs[i].buf] : i \in 1..Len(objs)}
        \cup (IF ret # Idle /\ ret.out.k = "inst"
              THEN {[cls |-> ret.out.cls, buf |-> ret.out.buf]}
              ELSE {})

\* C8: deleting an index or slice raises NotImplementedError and leaves the
\* coordinates as they were; and whatever has been called, every instance's
\* d is the length of its coordinates and the length it was constructed with.
C8_DimensionalityImmutable ==
    /\ ret.op = "delitem" =>
          /\ ret.out = Raise("NotImplementedError")
          /\ heap[ret.self.buf] = ret.self.co
    /\ \A i \in 1..Len(objs) :
          /\ D(Self(i)) = Len(heap[objs[i].buf])
          /\ D(Self(i)) = objs[i].d0
    /\ (ret # Idle /\ ret.out.k = "inst") => Len(heap[ret.out.buf]) = D(ret.out)

\* A slice was written on an instance of length 2, which has length 2 still.
C8_Witness ==
    /\ ret.op = "setitem"
    /\ ret.arg.key.k = "slice"
    /\ ret.out = PyNone
    /\ heap[ret.self.buf] # ret.self.co
    /\ objs[ret.self.id].d0 = 2
    /\ Len(heap[ret.self.buf]) = 2

\* C9: c = v.copy() is a new instance of v's class with an array of its own,
\* for which c == v is True.
C9_CopyEquals ==
    (/\ ret.op = "eq"
     /\ "after" \in DOMAIN ret
     /\ ret.after.op = "copy"
     /\ ret.arg.id = ret.after.self.id) =>
        /\ ret.self.cls = ret.arg.cls
        /\ ret.self.id = 0
        /\ ret.self.buf # ret.arg.buf
        /\ ret.out = PyBool(TRUE)

\* C10: Point(raw) with a raw sequence not of length 2 raises ValueError and
\* makes no instance; Point.from_vector(v) makes a Point with v's coordinates
\* when v has length 2 and raises otherwise; every Point there is has d = 2.
C10_PointLength ==
    /\ (/\ ret.op = "new"
        /\ ret.self.cls = "Point"
        /\ Len(ret.arg.seq) # 2) =>
          /\ ret.out = Raise("ValueError")
          /\ Len(heap) = Len(objs)
    /\ ret.op = "from_vector" =>
          IF D(ret.arg) = 2
          THEN /\ ret.out.k = "inst"
               /\ ret.out.cls = "Point"
               /\ ret.out.co = ret.arg.co
          ELSE ret.out.k = "raise"
    /\ \A x \in Alive : x.cls = "Point" => Len(heap[x.buf]) = 2

\* Point.from_vector refused a base Vector of length 1, with Points alive.
C10_Witness ==
    /\ ret.op = "from_vector"
    /\ D(ret.arg) = 1
    /\ ret.out = Raise("ValueError")
    /\ \E i \in 1..Len(objs) : objs[i].cls = "Point"

\* A raw sequence the constructor of cls takes: any for Vector, two long for
\* Point.
Admits(cls, seq) == cls = "Vector" \/ Len(seq) = 2

\* The instance `out` is new: no name holds it and no held instance uses its
\* array.
IsNew(out) ==
    /\ out.k = "inst"
    /\ out.id = 0
    /\ \A i \in 1..Len(objs) : objs[i].buf # out.buf

C12_StrictCoercion ==
    ret.op = "to_class_strict" =>
        /\ ret.arg.k = "num" => ret.out = Raise("TypeError")
        /\ (ret.arg.k = "raw" /\ Admits(ret.self.cls, ret.arg.seq)) =>
              /\ IsNew(ret.out)
              /\ ret.out.cls = ret.self.cls
              /\ heap[ret.out.buf] = ret.arg.seq
        /\ (ret.arg.k = "inst" /\ ret.arg.cls = "Point") =>
              /\ IsNew(ret.out)
              /\ ret.out.cls = "Vector"
              /\ heap[ret.out.buf] = ret.arg.co
        /\ (ret.arg.k = "inst" /\ ret.arg.cls = "Vector") =>
              /\ ret.out.k = "inst"
              /\ ret.out.co = ret.arg.co

\* C12 without its last part: strict to_class on numbers, raw sequences and
\* Points.
C12_StrictOnTheRest ==
    ret.op = "to_class_strict" =>
        /\ ret.arg.k = "num" => ret.out = Raise("TypeError")
        /\ (ret.arg.k = "raw" /\ Admits(ret.self.cls, ret.arg.seq)) =>
              /\ IsNew(ret.out)
              /\ ret.out.cls = ret.self.cls
        /\ (ret.arg.k = "inst" /\ ret.arg.cls = "Point") =>
              /\ IsNew(ret.out)
              /\ ret.out.cls = "Vector"

\* Strict to_class refuses every instance of the base Vector class.
C12_BaseVectorRefused ==
    (/\ ret.op = "to_class_strict"
     /\ ret.arg.k = "inst"
     /\ ret.arg.cls = "Vector") => ret.out = Raise("TypeError")

\* No two instances use one array, the instance just returned included.
OwnStorage ==
    /\ \A i, j \in 1..Len(objs) : i # j => objs[i].buf # objs[j].buf
    /\ (ret # Idle /\ ret.out.k = "inst" /\ ret.out.id = 0) =>
          \A i \in 1..Len(objs) : objs[i].buf # ret.out.buf

\* A step changes the coordinates of no held instance, but for an indexed
\* write, which may change those of its receiver.
OnlyWritesChange ==
    \A i \in 1..Len(objs) :
        \/ heap'[objs[i].buf] = heap[objs[i].buf]
        \/ ret = Idle /\ ret'.op = "setitem" /\ ret'.self.id = i

\* C13: no two distinct instances ever use the same coordinate array,
\* however the second was made (a constructor handed the first one's
\* coordinates, copy, vector, from_vector, flip_x, flip_y, unary or binary
\* arithmetic); an indexed write changes the coordinates of its receiver
\* only, and no other call changes the coordinates of any instance, receiver
\* and operand included.
C13_ExclusiveStorage == []OwnStorage /\ [][OnlyWritesChange]_vars

\* Of two held instances with the same coordinates, an indexed write changed
\* one, and the other has the coordinates it had.
C13_Witness ==
    /\ ret.op = "setitem"
    /\ ret.out = PyNone
    /\ Len(objs) = 2
    /\ heap[ret.self.buf] # ret.self.co
    /\ \E i \in 1..2 : i # ret.self.id /\ heap[objs[i].buf] = ret.self.co

=============================================================================
